---- MODULE Spec2Model ----
(***************************************************************************)
(* Revision tracking and range comparison of argus (src/src/routes/pr.ts,  *)
(* src/src/lib/git.ts, src/src/lib/github.ts).                             *)
(*                                                                         *)
(* State: the pr_revisions table (ledger), the user_preferences rows that  *)
(* hold range_diff_skip_confirm (prefs), the bare clones on disk (mirror), *)
(* the wall clock, and the in-flight request handlers.  Node runs every    *)
(* handler on one event loop: code between two real I/O awaits is one      *)
(* atomic step, so each action below is one such stretch of a handler.     *)
(***************************************************************************)
EXTENDS Integers, Sequences, FiniteSets, TLC

\* ------------------------------------------------------------------ bounds
\* events of one timeline response
MaxEvents == 2
\* characters of a token given to sanitizeError
MaxTokenLen == 3
\* characters of a message given to sanitizeError
MaxMessageLen == 4
\* seconds the wall clock can advance
MaxClock == 1
\* characters of a numeric parameter of a URL
MaxParamLen == 2

\* ----------------------------------------------------------------- domains
NULL == "null"
Users == {"u1", "u2"}
Repos == {"o/r1", "o/r2"}
\* the pull requests that are viewed: (owner/repo, number)
ChangeSets == {<<"o/r1", 1>>, <<"o/r1", 2>>, <<"o/r2", 1>>}
Shas == {"a", "b"}
\* what git merge-base prints for (base_sha, head_sha): a commit of the
\* history, the same at every run
MergeBaseOf(baseSha, headSha) == IF headSha = "a" THEN "m1" ELSE "m2"
Bases == {[ref |-> "main", sha |-> "b1"], [ref |-> "dev", sha |-> "b2"]}
\* calls in one behaviour: each backfill or comparison process is one call
BfProcs == {1, 2}
CmpProcs == {1, 2}

\* pr.head.ref of a pull request: fixed for the life of the pull request
HeadRefOf(r, n) == IF n = 1 THEN "topic1" ELSE "topic2"

(***************************************************************************)
(* Timestamps are strings in the code, compared by localeCompare (the      *)
(* backfill sort) and by SQLite's BINARY collation (ORDER BY seen_at).     *)
(* GitHub's created_at is "YYYY-MM-DDTHH:MM:SSZ"; new Date().toISOString() *)
(* is "YYYY-MM-DDTHH:MM:SS.mmmZ".  Within one second "." sorts before "Z"  *)
(* in both orders, so a timestamp is the integer 2*second + format, with   *)
(* format 0 for toISOString and 1 for created_at: integer order is then    *)
(* the string order of the code.                                           *)
(***************************************************************************)
IsoNow(c) == 2 * c
CreatedAt(s) == 2 * s + 1
\* events of second 0 and of second 1: before and after a view at second 0,
\* within the second of a view at second 1
EventStamps == {CreatedAt(s) : s \in {0, 1}}

\* Timeline events as GitHub returns them: force pushes (commit_id is the new
\* head, absent on some), and other events, which carry no commit_id.
Events ==
    [event : {"head_ref_force_pushed"}, created_at : EventStamps, commit_id : Shas]
    \cup {[event |-> "head_ref_force_pushed", created_at |-> CreatedAt(0), commit_id |-> NULL],
          [event |-> "committed", created_at |-> CreatedAt(0), commit_id |-> NULL]}

SeqsUpTo(S, n) == UNION {[1..k -> S] : k \in 0..n}
Timelines == SeqsUpTo(Events, MaxEvents)

VARIABLES ledger, prefs, mirror, clock, bf, cmp, activeProcesses, exec, down, san, fr

\* the state of routes/pr.ts
appVars == <<ledger, prefs, mirror, clock, bf, cmp>>

\* the state of lib/git.ts: the registry of live subprocesses, the execGit
\* calls, whether the server has shut down, a sanitizeError application, and
\* the fetchRefs calls
gitVars == <<activeProcesses, exec, down, san, fr>>

vars == <<ledger, prefs, mirror, clock, bf, cmp, activeProcesses, exec, down, san, fr>>

\* ----------------------------------------------------------- the ledger
Ids(led) == 1..Len(led)

SameKey(row, r, n, headSha) ==
    /\ row.repo = r
    /\ row.pr_number = n
    /\ row.head_sha = headSha

NewRow(r, n, headSha, headRef, baseSha, baseRef, mergeBaseSha, seenAt) ==
    [repo |-> r, pr_number |-> n, head_sha |-> headSha, head_ref |-> headRef,
     base_sha |-> baseSha, base_ref |-> baseRef,
     merge_base_sha |-> mergeBaseSha, seen_at |-> seenAt]

\* a plain INSERT on a table without the UNIQUE constraint
InsertAlways(led, row) == Append(led, row)

\* INSERT OR REPLACE: the row of the same key is deleted, the new one appended
InsertOrReplace(led, row) ==
    Append(SelectSeq(led, LAMBDA x : ~SameKey(x, row.repo, row.pr_number, row.head_sha)), row)

\* INSERT OR IGNORE under UNIQUE(owner, repo, pr_number, head_sha); the id is
\* AUTOINCREMENT and no row is ever deleted, so the id is the row's position.
InsertOrIgnore(led, row) ==
    IF \E i \in Ids(led) : SameKey(led[i], row.repo, row.pr_number, row.head_sha)
    THEN led
    ELSE Append(led, row)

\* saveRevision: merge_base_sha is always inserted as null.  Every caller
\* passes seenAt, so only the branch with a timestamp is modelled.
\* the row of the key given the new seen_at when there is one (ON CONFLICT DO
\* UPDATE SET seen_at)
TouchRevision(led, r, n, headSha, headRef, baseSha, baseRef, seenAt) ==
    IF \E i \in Ids(led) : SameKey(led[i], r, n, headSha)
    THEN [i \in Ids(led) |-> IF SameKey(led[i], r, n, headSha)
                              THEN [led[i] EXCEPT !.seen_at = seenAt] ELSE led[i]]
    ELSE InsertOrIgnore(led, NewRow(r, n, headSha, headRef, baseSha, baseRef, NULL, seenAt))

saveRevision(led, r, n, headSha, headRef, baseSha, baseRef, seenAt) ==
    InsertOrIgnore(led, NewRow(r, n, headSha, headRef, baseSha, baseRef, NULL, seenAt))

\* fetchPRTimeline: a failed request is logged and becomes the empty list
fetchPRTimeline(reachable, tl) == IF reachable THEN tl ELSE <<>>

\* the loop over the timeline: force pushes that carry a commit id
RECURSIVE ForcePushes(_)
ForcePushes(tl) ==
    IF tl = <<>> THEN <<>>
    ELSE LET e == Head(tl)
             rest == ForcePushes(Tail(tl))
         IN  IF e.event = "head_ref_force_pushed" /\ e.commit_id # NULL
             THEN <<[sha |-> e.commit_id, timestamp |-> e.created_at]>> \o rest
             ELSE rest

\* the current head left out
WithoutCurrentHead(revs, currentHeadSha, now) == revs

\* "Add current head if not already in the list"
WithCurrentHead(revs, currentHeadSha, now) ==
    IF \E i \in 1..Len(revs) : revs[i].sha = currentHeadSha
    THEN revs
    ELSE Append(revs, [sha |-> currentHeadSha, timestamp |-> IsoNow(now)])

\* Array.prototype.sort is stable: an element goes after its equals
RECURSIVE InsertSorted(_, _)
InsertSorted(x, s) ==
    IF s = <<>> THEN <<x>>
    ELSE IF x.timestamp < Head(s).timestamp THEN <<x>> \o s
    ELSE <<Head(s)>> \o InsertSorted(x, Tail(s))

\* the list saved as the timeline gave it
Unsorted(revs) == revs

RECURSIVE SortByTimestamp(_)
SortByTimestamp(revs) ==
    IF revs = <<>> THEN <<>>
    ELSE InsertSorted(revs[Len(revs)], SortByTimestamp(SubSeq(revs, 1, Len(revs) - 1)))

\* the revisions a backfill saves, in the order it saves them
BackfillList(tl, currentHeadSha, now) ==
    SortByTimestamp(WithCurrentHead(ForcePushes(tl), currentHeadSha, now))

RECURSIVE SaveAll(_, _, _, _, _, _, _)
SaveAll(led, revs, r, n, headRef, baseSha, baseRef) ==
    IF revs = <<>> THEN led
    ELSE SaveAll(saveRevision(led, r, n, Head(revs).sha, headRef, baseSha, baseRef,
                              Head(revs).timestamp),
                 Tail(revs), r, n, headRef, baseSha, baseRef)

\* ------------------------------------------------------------ getRevisions
RowsOf(led, r, n) == {i \in Ids(led) : led[i].repo = r /\ led[i].pr_number = n}

\* ORDER BY seen_at ASC
RECURSIVE OrderAsc(_, _)
OrderAsc(led, S) ==
    IF S = {} THEN <<>>
    ELSE LET top == CHOOSE i \in S :
                       \A j \in S : \/ led[i].seen_at < led[j].seen_at
                                    \/ led[i].seen_at = led[j].seen_at /\ i <= j
         IN  <<top>> \o OrderAsc(led, S \ {top})

\* ORDER BY seen_at DESC over the rows of one pull request; rows with equal
\* seen_at come out in rowid order, the order of the scan of
\* idx_pr_revisions_seen_at.
RECURSIVE OrderDesc(_, _)
OrderDesc(led, S) ==
    IF S = {} THEN <<>>
    ELSE LET top == CHOOSE i \in S :
                       \A j \in S : \/ led[i].seen_at > led[j].seen_at
                                    \/ led[i].seen_at = led[j].seen_at /\ i <= j
         IN  <<top>> \o OrderDesc(led, S \ {top})

getRevisions(led, r, n) ==
    LET order == OrderDesc(led, RowsOf(led, r, n))
    IN  [k \in 1..Len(order) |-> [id |-> order[k]] @@ led[order[k]]]

\* ------------------------------------------------------------ lib/git.ts
\* characters of tokens and messages: "+" is a regular-expression
\* metacharacter, "a", "b" and "T" are not; "T" is a letter of the
\* replacement text
Alphabet == {"a", "b", "+", "T"}
\* '***TOKEN***', character by character
PLACEHOLDER == <<"*", "*", "*", "T", "O", "K", "E", "N", "*", "*", "*">>
\* what sanitizeError gives when new RegExp(token) throws a SyntaxError
SYNTAX_ERROR == <<"SyntaxError">>

\* message.includes(token)
Contains(message, token) ==
    \E i \in 1..(Len(message) - Len(token) + 1) :
       SubSeq(message, i, i + Len(token) - 1) = token

\* new RegExp(token): the pattern is read as a sequence of atoms, a character
\* followed by "+" being that character repeated one or more times; a "+" with
\* nothing to repeat is a SyntaxError ("Nothing to repeat").
RECURSIVE Atoms(_)
Atoms(token) ==
    IF token = <<>> THEN <<>>
    ELSE IF Len(token) >= 2 /\ token[2] = "+"
         THEN <<[ch |-> token[1], plus |-> TRUE]>> \o Atoms(SubSeq(token, 3, Len(token)))
         ELSE <<[ch |-> token[1], plus |-> FALSE]>> \o Atoms(Tail(token))

ValidPattern(token) == \A k \in 1..Len(Atoms(token)) : Atoms(token)[k].ch # "+"

\* the number of characters equal to ch from position pos on
RECURSIVE Run(_, _, _)
Run(message, pos, ch) ==
    IF pos <= Len(message) /\ message[pos] = ch THEN 1 + Run(message, pos + 1, ch) ELSE 0

\* the backtracking matcher: where a match of the atoms that starts at pos
\* ends (the position after it), 0 when there is none; "+" is greedy
RECURSIVE MatchEnd(_, _, _)
MatchEnd(atoms, message, pos) ==
    IF atoms = <<>> THEN pos
    ELSE LET a == Head(atoms)
             ks == {k \in 1..Run(message, pos, a.ch) :
                      /\ a.plus \/ k = 1
                      /\ MatchEnd(Tail(atoms), message, pos + k) # 0}
         IN  IF ks = {} THEN 0
             ELSE MatchEnd(Tail(atoms), message, pos + (CHOOSE k \in ks : \A j \in ks : j <= k))

\* the /g replace: leftmost matches, not overlapping
RECURSIVE ReplaceAll(_, _, _)
ReplaceAll(atoms, message, pos) ==
    IF pos > Len(message) THEN <<>>
    ELSE LET e == MatchEnd(atoms, message, pos)
         IN  IF e # 0 THEN PLACEHOLDER \o ReplaceAll(atoms, message, e)
             ELSE <<message[pos]>> \o ReplaceAll(atoms, message, pos + 1)

\* message.replace(new RegExp(token, 'g'), '***TOKEN***')
ReplaceRegExp(message, token) ==
    IF ValidPattern(token) THEN ReplaceAll(Atoms(token), message, 1) ELSE SYNTAX_ERROR

\* the message left as it is
LeaveMessage(message, token) == message

sanitizeError(message, token) ==
    IF token = <<>> THEN message ELSE ReplaceRegExp(message, token)

\* no sanitizeError application yet
IdleSan == [pc |-> "idle"]

Tokens == UNION {[1..k -> Alphabet] : k \in 0..MaxTokenLen}
Messages == UNION {[1..k -> Alphabet] : k \in 0..MaxMessageLen}

\* execGit calls in one behaviour
ExecCalls == {1, 2}
\* the git commands of ensureRepo, fetchRefs, computeMergeBase, computeRangeDiff
GitOps == {"clone", "fetch", "fetchDeep", "mergeBase", "rangeDiff"}
\* request.user.accessToken: set only when GitHub accepted GITHUB_TOKEN, so a
\* token GitHub issues, of letters, digits and "_"
AccessTokens == {<<"a">>, <<"a", "b">>}
\* what git writes to stderr, or the message of a spawn error: nothing, a text
\* without the token, the token, a text that repeats it (the remote URL)
Stderrs(token) == {<<>>, <<"b">>, token, <<"b">> \o token \o token}
\* exit codes at close: success, 1 (git merge-base: no common ancestor), 128
\* (fatal), and null when a signal ended the process
ExitCodes == {"0", "1", "128", NULL}

\* new Error(`<kind> ...: <text>`) of execGit: the fixed text names the kind
GitError(kind, exit, text) == [kind |-> kind, exit |-> exit, text |-> text]

\* the error as the caller of execGit throws it again
Surfaced(wrap, err, text) ==
    [wrap |-> wrap, kind |-> err.kind, exit |-> err.exit, text |-> text]

NoError == GitError("none", NULL, <<>>)

\* config.git.fetchDepth
fetchDepth == 200
\* config.git.fetchDeepDepth
fetchDeepDepth == 500

\* fetchRefs calls in one behaviour
FetchCalls == {1, 2}
\* the depth argument: 0 when the caller passes none (depth || ... takes
\* undefined and 0 alike), and depths below, at and above the two of the
\* configuration
Depths == {0, 1, fetchDepth, fetchDeepDepth, fetchDeepDepth + 1}
\* how an execGit of git fetch ends: resolved, or rejected with stderr about a
\* shallow history, with another stderr, by the timer, by a failed spawn
FetchOutcomes == {"ok", "shallow", "failed", "timeout", "error"}

IdleFetch ==
    [pc |-> "idle", depth |-> 0, invocations |-> <<>>, first |-> "none",
     second |-> "none", result |-> "none"]

IdleExec ==
    [pc |-> "idle", op |-> "none", token |-> <<>>, proc |-> "none", exitCode |-> "none",
     timer |-> "none", timedOut |-> FALSE, result |-> NoError, surfaced |-> Surfaced("none", NoError, <<>>)]

\* ------------------------------------------------------------------ state
\* history kept with a finished backfill: the commits of the force pushes in
\* the timeline response it consumed
ForcedCommits(tl) ==
    {tl[i].commit_id : i \in {j \in 1..Len(tl) : /\ tl[j].event = "head_ref_force_pushed"
                                                  /\ tl[j].commit_id # NULL}}

IdleBf == [pc |-> "idle"]

\* the parameters of a range-diff request; confirmed: it is the redirect of the
\* confirm form; number, rawFromId and rawToId: the strings of the URL, empty
\* when the request is given by its parsed ids
Request(user, r, fromId, toId, confirmed) ==
    [user |-> user, repo |-> r, fromId |-> fromId, toId |-> toId,
     confirmed |-> confirmed, number |-> <<>>, rawFromId |-> <<>>, rawToId |-> <<>>]

IdleCmp ==
    [pc |-> "idle", stage |-> "none", fromMb |-> NULL, toMb |-> NULL,
     result |-> "none", spawns |-> 0, live |-> 0, last |-> "none",
     mergeBases |-> 0, rangeDiffs |-> 0, needed |-> 0, dontAskAgain |-> FALSE,
     fromHead |-> NULL, toHead |-> NULL, clones |-> 0]
    @@ Request(NULL, NULL, 0, 0, FALSE)

\* a server that has just started
Started ==
    /\ ledger = <<>>
    /\ prefs = {}
    /\ mirror = {}
    /\ clock = 0
    /\ bf = [p \in BfProcs |-> IdleBf]
    /\ cmp = [p \in CmpProcs |-> IdleCmp]
    /\ activeProcesses = {}
    /\ exec = [c \in ExecCalls |-> IdleExec]
    /\ down = FALSE
    /\ fr = [f \in FetchCalls |-> IdleFetch]

Init == Started /\ san = IdleSan

Tick ==
    /\ clock < MaxClock
    /\ clock' = clock + 1
    /\ UNCHANGED <<gitVars, ledger, prefs, mirror, bf, cmp>>

\* A route (GET /pr/:owner/:repo/:number, .../commits) calls backfillRevisions
\* with the pull request as fetched; it runs to its first await, the
\* timeline request.
BackfillCall(p, cs, base, currentHeadSha) ==
    /\ bf[p].pc = "idle"
    /\ \A q \in BfProcs : q < p => bf[q].pc # "idle"
    /\ bf' = [bf EXCEPT ![p] = [pc |-> "timeline", repo |-> cs[1], pr_number |-> cs[2],
                                baseRef |-> base.ref, baseSha |-> base.sha,
                                headRef |-> HeadRefOf(cs[1], cs[2]),
                                currentHeadSha |-> currentHeadSha]]
    /\ UNCHANGED <<gitVars, ledger, prefs, mirror, clock, cmp>>

\* The timeline request settles; the rest of backfillRevisions and the
\* route's getRevisions run without another I/O await (awaiting saveRevision
\* only yields to microtasks).
BackfillResume(p, reachable, tl) ==
    /\ bf[p].pc = "timeline"
    /\ LET c == bf[p]
           revs == BackfillList(fetchPRTimeline(reachable, tl), c.currentHeadSha, clock)
           led == SaveAll(ledger, revs, c.repo, c.pr_number, c.headRef, c.baseSha, c.baseRef)
       IN  /\ ledger' = led
           /\ bf' = [bf EXCEPT ![p] =
                        [pc |-> "done", reachable |-> reachable,
                         now |-> clock,
                         forced |-> ForcedCommits(tl),
                         wasEmpty |-> RowsOf(ledger, c.repo, c.pr_number) = {},
                         revisions |-> getRevisions(led, c.repo, c.pr_number)] @@ c]
    /\ UNCHANGED <<gitVars, prefs, mirror, clock, cmp>>

\* ------------------------------------------------------ route parameters
\* the characters of a numeric route parameter: digits and one other
ParamChars == {"1", "2", "x"}
Digits == {"1", "2"}
DigitValue(ch) == IF ch = "1" THEN 1 ELSE 2

\* the parameters of a URL: the non-empty strings up to MaxParamLen
RawParams == SeqsUpTo(ParamChars, MaxParamLen) \ {<<>>}

\* an owner/repo pair of the URL that names no repository: owner '..'
DotDotRepo == "../r1"
RawRepos == Repos \cup {DotDotRepo}

\* the longest prefix of str made of digits
RECURSIVE DigitPrefix(_)
DigitPrefix(str) ==
    IF str = <<>> \/ Head(str) \notin Digits THEN <<>>
    ELSE <<Head(str)>> \o DigitPrefix(Tail(str))

RECURSIVE Decimal(_)
Decimal(ds) ==
    IF ds = <<>> THEN 0
    ELSE 10 * Decimal(SubSeq(ds, 1, Len(ds) - 1)) + DigitValue(ds[Len(ds)])

\* parseInt(str, 10): the value of the leading digits, whatever follows them;
\* NaN when there is none
parseInt(str) ==
    LET ds == DigitPrefix(str)
    IN  [nan |-> ds = <<>>, value |-> Decimal(ds)]

isNaN(x) == x.nan

\* ------------------------------------------------- the range-diff route
\* GET /pr/:owner/:repo/:number/range-diff/:fromId/:toId and its confirm form.
\* A comparison process is one browser request, followed through the redirect
\* of the confirm form.  pc names the git subprocess the handler awaits.
\* SELECT ... FROM pr_revisions WHERE id = ?
LoadRev(led, id) == IF id \in Ids(led) THEN <<led[id]>> ELSE <<>>

\* const needsCompute = !fromRev.merge_base_sha || !toRev.merge_base_sha
needsCompute(fromRev, toRev) ==
    fromRev.merge_base_sha = NULL \/ toRev.merge_base_sha = NULL

\* a preference key without the repository
skipConfirmAnyRepo(prf, user, r) ==
    \E x \in prf : x.user_id = user /\ x.preference_value = "1"

\* prefRows.length > 0 && prefRows[0].preference_value === '1', the rows being
\* those of the user under range_diff_skip_confirm:<owner>/<repo>
skipConfirm(prf, user, r) ==
    \E x \in prf : /\ x.user_id = user
                   /\ x.preference_key = r
                   /\ x.preference_value = "1"

\* the row the confirm form writes: VALUES (?, ?, '1', datetime('now'))
PrefRow(user, r, now) ==
    [user_id |-> user, preference_key |-> r, preference_value |-> "1",
     updated_at |-> now]

\* INSERT INTO user_preferences without the conflict clause
InsertPreference(prf, row) == prf \cup {row}

\* INSERT OR REPLACE INTO user_preferences, PRIMARY KEY (user_id, preference_key)
InsertOrReplacePreference(prf, row) ==
    {x \in prf : ~(x.user_id = row.user_id /\ x.preference_key = row.preference_key)}
        \cup {row}

\* if (needsCompute && !skipConfirm)
GateBlocks(nc, sc) == nc /\ ~sc

\* the merge base computed whether or not the row has one
MissingAlways(mergeBase) == TRUE

\* if (!fromMergeBase), if (!toMergeBase)
Missing(mergeBase) == mergeBase = NULL

\* execGit spawns one subprocess and the handler awaits its close; spawns,
\* clones, mergeBases and rangeDiffs count the execGit calls of the request, live the
\* subprocesses it has started and not yet seen settle
Spawn(c, op) ==
    [c EXCEPT !.pc = op, !.spawns = @ + 1, !.live = @ + 1,
              !.clones = @ + (IF op = "clone" THEN 1 ELSE 0),
              !.mergeBases = @ + (IF op = "mergeBase" THEN 1 ELSE 0),
              !.rangeDiffs = @ + (IF op = "rangeDiff" THEN 1 ELSE 0)]

\* the handler going on while its subprocess still runs
StillRunning(c, outcome) == [c EXCEPT !.last = outcome]

\* the awaited execGit promise settles: the subprocess closed, or the timer
\* killed it
Closed(c, outcome) == [c EXCEPT !.live = @ - 1, !.last = outcome]

\* a clone whether or not the bare repository is on disk
AlwaysClone(c, stage, mir) == Spawn([c EXCEPT !.stage = stage], "clone")

\* ensureRepo, then fetchRefs: a clone when the bare repository is not on
\* disk, the fetch at once when it is
EnterGit(c, stage, mir) ==
    Spawn([c EXCEPT !.stage = stage], IF c.repo \in mir THEN "fetch" ELSE "clone")

\* the range-diff started whatever merge bases are missing
StraightToRange(c, mir) == EnterGit(c, "range", mir)

\* what the handler does next once the merge bases it has are in its locals
NextStage(c, mir) ==
    IF Missing(c.fromMb) THEN EnterGit(c, "from", mir)
    ELSE IF Missing(c.toMb) THEN EnterGit(c, "to", mir)
    ELSE EnterGit(c, "range", mir)

Reply(req, result) ==
    [pc |-> "done", stage |-> "none", fromMb |-> NULL, toMb |-> NULL,
     result |-> result, spawns |-> 0, live |-> 0, last |-> "none",
     mergeBases |-> 0, rangeDiffs |-> 0, needed |-> 0, dontAskAgain |-> FALSE,
     fromHead |-> NULL, toHead |-> NULL, clones |-> 0] @@ req

\* the confirm page storing the preference as it is shown
ReplyConfirmStoringSkip(p, req) ==
    /\ cmp' = [cmp EXCEPT ![p] = Reply(req, "ConfirmationRequired")]
    /\ prefs' = InsertOrReplacePreference(prefs, PrefRow(req.user, req.repo, clock))
    /\ UNCHANGED <<gitVars, ledger, mirror, clock, bf>>

\* reply.view('range-diff-confirm', ...)
ReplyConfirm(p, req) ==
    /\ cmp' = [cmp EXCEPT ![p] = Reply(req, "ConfirmationRequired")]
    /\ UNCHANGED <<gitVars, ledger, prefs, mirror, clock, bf>>

\* reply.status(404): 'Revision not found'
ReplyNotFound(p, req) ==
    /\ cmp' = [cmp EXCEPT ![p] = Reply(req, "NotFound")]
    /\ UNCHANGED <<gitVars, ledger, prefs, mirror, clock, bf>>

\* the comparison answered from the stored merge bases, without git
ProceedFromCache(p, req, fromRev, toRev) ==
    IF needsCompute(fromRev, toRev)
    THEN /\ cmp' = [cmp EXCEPT ![p] =
                      NextStage([Reply(req, "none") EXCEPT
                                     !.fromMb = fromRev.merge_base_sha,
                                     !.toMb = toRev.merge_base_sha],
                                mirror)]
         /\ UNCHANGED <<gitVars, ledger, prefs, mirror, clock, bf>>
    ELSE /\ cmp' = [cmp EXCEPT ![p] = [Reply(req, "Comparison") EXCEPT !.stage = "range"]]
         /\ UNCHANGED <<gitVars, ledger, prefs, mirror, clock, bf>>

\* past the gate: the locals are set from the loaded rows and the handler runs
\* to its first subprocess
Proceed(p, req, fromRev, toRev) ==
    /\ cmp' = [cmp EXCEPT ![p] =
                 NextStage([Reply(req, "none") EXCEPT
                                !.fromMb = fromRev.merge_base_sha,
                                !.toMb = toRev.merge_base_sha,
                                !.fromHead = fromRev.head_sha,
                                !.toHead = toRev.head_sha,
                                !.needed = (IF fromRev.merge_base_sha = NULL THEN 1 ELSE 0)
                                           + (IF toRev.merge_base_sha = NULL THEN 1 ELSE 0)],
                           mirror)]
    /\ UNCHANGED <<gitVars, ledger, prefs, mirror, clock, bf>>

\* the gate consulted before the rows are looked at
GateFirst(p, req) ==
    LET fromRows == LoadRev(ledger, req.fromId)
        toRows == LoadRev(ledger, req.toId)
        absent == fromRows = <<>> \/ toRows = <<>>
    IN  IF ~skipConfirm(prefs, req.user, req.repo)
           /\ (absent \/ needsCompute(fromRows[1], toRows[1]))
        THEN ReplyConfirm(p, req)
        ELSE IF absent THEN ReplyNotFound(p, req)
        ELSE Proceed(p, req, fromRows[1], toRows[1])

HandleGet(p, req) ==
    LET fromRows == LoadRev(ledger, req.fromId)
        toRows == LoadRev(ledger, req.toId)
    IN  IF fromRows = <<>> \/ toRows = <<>>
        THEN ReplyNotFound(p, req)
        ELSE IF GateBlocks(needsCompute(fromRows[1], toRows[1]),
                           skipConfirm(prefs, req.user, req.repo))
        THEN ReplyConfirm(p, req)
        ELSE Proceed(p, req, fromRows[1], toRows[1])

CompareCall(p, user, r, fromId, toId) ==
    /\ cmp[p].pc = "idle"
    /\ \A q \in CmpProcs : q < p => cmp[q].pc # "idle"
    /\ HandleGet(p, Request(user, r, fromId, toId, FALSE))

\* the route with its parameters as they are in the URL: the numbers parsed,
\* 400 'Invalid parameters' when one is NaN, the handler otherwise
RangeDiffRequest(p, user, r, number, fromId, toId) ==
    /\ cmp[p].pc = "idle"
    /\ \A q \in CmpProcs : q < p => cmp[q].pc # "idle"
    /\ LET prNumber == parseInt(number)
           fromRevId == parseInt(fromId)
           toRevId == parseInt(toId)
           req == [Request(user, r, fromRevId.value, toRevId.value, FALSE)
                     EXCEPT !.number = number, !.rawFromId = fromId, !.rawToId = toId]
       IN  IF isNaN(prNumber) \/ isNaN(fromRevId) \/ isNaN(toRevId)
           THEN /\ cmp' = [cmp EXCEPT ![p] = Reply(req, "InvalidParameters")]
                /\ UNCHANGED <<gitVars, ledger, prefs, mirror, clock, bf>>
           ELSE HandleGet(p, req)

\* POST .../confirm: stores the preference when the box is ticked, then
\* redirects to the GET route
Confirm(p, dontAskAgain) ==
    /\ cmp[p].pc = "done"
    /\ cmp[p].result = "ConfirmationRequired"
    /\ prefs' = IF dontAskAgain
                THEN InsertOrReplacePreference(prefs, PrefRow(cmp[p].user, cmp[p].repo, clock))
                ELSE prefs
    /\ cmp' = [cmp EXCEPT ![p].pc = "redirect", ![p].dontAskAgain = dontAskAgain]
    /\ UNCHANGED <<gitVars, ledger, mirror, clock, bf>>

\* the browser follows the redirect: the GET handler runs again, on the parsed
\* number (`${prNumber}`) and the ids as they were in the URL
Redirected(p) ==
    /\ cmp[p].pc = "redirect"
    /\ HandleGet(p, [Request(cmp[p].user, cmp[p].repo, cmp[p].fromId, cmp[p].toId, TRUE)
                        EXCEPT !.number = DigitPrefix(cmp[p].number), !.rawFromId = cmp[p].rawFromId,
                               !.rawToId = cmp[p].rawToId])

\* the fetch started again after any failure
Refetch(c) == Spawn(c, "fetch")

\* the comparison view rendered from the catch
FailShowsComparison(c) == [c EXCEPT !.pc = "done", !.result = "Comparison"]

\* the catch of the route: the error view
Fail(c) == [c EXCEPT !.pc = "done", !.result = "Error"]

\* git clone --bare closes
CloneClose(p, ok) ==
    /\ cmp[p].pc = "clone"
    /\ IF ok
       THEN /\ mirror' = mirror \cup {cmp[p].repo}
            /\ cmp' = [cmp EXCEPT ![p] = Spawn(Closed(@, "ok"), "fetch")]
       ELSE /\ mirror' = mirror
            /\ cmp' = [cmp EXCEPT ![p] = Fail(Closed(@, "failed"))]
    /\ UNCHANGED <<gitVars, ledger, prefs, clock, bf>>

\* git range-diff after every fetch
AlwaysRangeDiff(c) == Spawn(c, "rangeDiff")

\* after fetchRefs: git merge-base for an ancestor, git range-diff for the
\* comparison
AfterFetch(c) == Spawn(c, IF c.stage = "range" THEN "rangeDiff" ELSE "mergeBase")

\* git fetch --depth <fetchDepth> closes; a failure that mentions "shallow" is
\* retried at fetchDeepDepth
FetchClose(p, outcome) ==
    /\ cmp[p].pc = "fetch"
    /\ cmp' = [cmp EXCEPT ![p] =
                 CASE outcome = "ok" -> AfterFetch(Closed(@, outcome))
                   [] outcome = "shallow" -> Spawn(Closed(@, outcome), "fetchDeep")
                   [] OTHER -> Fail(Closed(@, outcome))]
    /\ UNCHANGED <<gitVars, ledger, prefs, mirror, clock, bf>>

FetchDeepClose(p, ok) ==
    /\ cmp[p].pc = "fetchDeep"
    /\ cmp' = [cmp EXCEPT ![p] = IF ok THEN AfterFetch(Closed(@, "ok"))
                                         ELSE Fail(Closed(@, "failed"))]
    /\ UNCHANGED <<gitVars, ledger, prefs, mirror, clock, bf>>

\* the merge base kept in the local only
KeepRow(led, id, sha) == led

\* the row written again as a new row (REPLACE INTO): it gets a new id
UpdateAsReinsert(led, id, sha) ==
    Append(SelectSeq(led, LAMBDA x : x # led[id]), [led[id] EXCEPT !.merge_base_sha = sha])

\* UPDATE pr_revisions SET merge_base_sha = ? WHERE id = ?
UpdateMergeBase(led, id, sha) ==
    [led EXCEPT ![id].merge_base_sha = sha]

\* git merge-base closes: the result is stored in the row and in the local,
\* and the handler goes on to the next revision or to the range-diff
MergeBaseClose(p, ok) ==
    /\ cmp[p].pc = "mergeBase"
    /\ LET c == Closed(cmp[p], IF ok THEN "ok" ELSE "failed")
           id == IF c.stage = "from" THEN c.fromId ELSE c.toId
           sha == MergeBaseOf(ledger[id].base_sha, ledger[id].head_sha)
           d == IF c.stage = "from" THEN [c EXCEPT !.fromMb = sha]
                                    ELSE [c EXCEPT !.toMb = sha]
       IN  IF ok
           THEN /\ ledger' = UpdateMergeBase(ledger, id, sha)
                /\ cmp' = [cmp EXCEPT ![p] =
                             IF c.stage = "from" THEN NextStage(d, mirror)
                                                 ELSE EnterGit(d, "range", mirror)]
           ELSE /\ cmp' = [cmp EXCEPT ![p] = Fail(c)]
                /\ ledger' = ledger
    /\ UNCHANGED <<gitVars, prefs, mirror, clock, bf>>

\* computeRangeDiff(owner, repo, fromMergeBase, fromRev.head_sha, toMergeBase,
\* toRev.head_sha, token): the two ranges git range-diff is given
RangeDiffArgs(c) == <<c.fromMb, c.fromHead, c.toMb, c.toHead>>

\* git range-diff closes: reply.view('range-diff', ...)
RangeDiffClose(p, ok) ==
    /\ cmp[p].pc = "rangeDiff"
    /\ cmp' = [cmp EXCEPT ![p] =
                 IF ok THEN [Closed(@, "ok") EXCEPT !.pc = "done", !.result = "Comparison"]
                       ELSE Fail(Closed(@, "failed"))]
    /\ UNCHANGED <<gitVars, ledger, prefs, mirror, clock, bf>>

\* the execGit call the request awaits settles, with any outcome
GitSettles(p) ==
    \/ \E ok \in BOOLEAN : CloneClose(p, ok)
    \/ \E outcome \in {"ok", "shallow", "failed"} : FetchClose(p, outcome)
    \/ \E ok \in BOOLEAN : FetchDeepClose(p, ok)
    \/ \E ok \in BOOLEAN : MergeBaseClose(p, ok)
    \/ \E ok \in BOOLEAN : RangeDiffClose(p, ok)

\* ------------------------------------------------------------------ execGit
\* no timer set
noTimer == "none"

\* const timer = setTimeout(..., timeout)
setTimer == "armed"

\* the 'Failed to ...: ' text each caller of execGit puts before the sanitized
\* message of the error it caught
WrapperOf(op) ==
    CASE op = "clone" -> "Failed to clone repository"
      [] op = "fetch" -> "Failed to fetch refs"
      [] op = "fetchDeep" -> "Failed to fetch refs (even with deep fetch)"
      [] op = "mergeBase" -> "Failed to compute merge-base"
      [] OTHER -> "Failed to compute range-diff"

\* catch (err) { throw new Error(`Failed to ...: ${sanitizeError(err.message, token)}`) }
Rethrow(op, err, token) ==
    Surfaced(WrapperOf(op), err, sanitizeError(err.text, token))

\* the process left in the registry
KeepRegistered(registry, c) == registry

\* cleanup(): activeProcesses.delete(proc)
Deregister(registry, c) == registry \ {c}

\* cleanup(): clearTimeout(timer)
ClearTimer(c) == IF c.timer = "armed" THEN [c EXCEPT !.timer = "cleared"] ELSE c

\* a promise settles once: resolve and reject on a settled promise do nothing
Resolve(c) ==
    IF c.pc = "pending" THEN [c EXCEPT !.pc = "resolved", !.result = GitError("ok", "0", <<>>)] ELSE c

\* a rejection that replaces the outcome of a settled promise
RejectSettled(c, err) ==
    [c EXCEPT !.pc = "rejected", !.result = err, !.surfaced = Rethrow(c.op, err, c.token)]

Reject(c, err) ==
    IF c.pc = "pending"
    THEN [c EXCEPT !.pc = "rejected", !.result = err,
                   !.surfaced = Rethrow(c.op, err, c.token)]
    ELSE c

\* a signal's null taken for success
FailedUnlessNull(code) == code \notin {"0", NULL}

\* if (code !== 0)
Failed(code) == code # "0"

\* execGit up to the return of the promise: spawn, register, arm the timer.
\* A spawn that fails still returns a child, whose 'error' event comes later.
ExecGit(c, op, token, spawned) ==
    /\ ~down
    /\ exec[c].pc = "idle"
    /\ \A d \in ExecCalls : d < c => exec[d].pc # "idle"
    /\ exec' = [exec EXCEPT ![c] =
                  [IdleExec EXCEPT !.pc = "pending", !.op = op, !.token = token,
                                   !.proc = IF spawned THEN "running" ELSE "spawnFailed",
                                   !.timer = setTimer]]
    /\ activeProcesses' = activeProcesses \cup {c}
    /\ UNCHANGED <<appVars, fr, down, san>>

\* the setTimeout callback
Timeout(c) ==
    /\ ~down
    /\ exec[c].timer = "armed"
    /\ activeProcesses' = Deregister(activeProcesses, c)
    /\ exec' = [exec EXCEPT ![c] =
                  Reject([exec[c] EXCEPT !.timer = "fired", !.timedOut = TRUE],
                         GitError("Git command timed out", NULL, <<>>))]
    /\ UNCHANGED <<appVars, fr, down, san>>

\* proc.on('close'): also after a kill, and after the 'error' of a failed spawn
ProcClose(c, code, stderr) ==
    /\ ~down
    /\ exec[c].proc \in {"running", "errored"}
    /\ exec[c].proc = "errored" => code = "128"
    /\ activeProcesses' = Deregister(activeProcesses, c)
    /\ LET d == ClearTimer([exec[c] EXCEPT !.proc = "closed", !.exitCode = code])
       IN  exec' = [exec EXCEPT ![c] =
                      IF d.timedOut THEN d
                      ELSE IF Failed(code)
                      THEN Reject(d, GitError("Git command failed", code,
                                              sanitizeError(stderr, d.token)))
                      ELSE Resolve(d)]
    /\ UNCHANGED <<appVars, fr, down, san>>

\* proc.on('error'): the spawn failed
ProcError(c, message) ==
    /\ ~down
    /\ exec[c].proc = "spawnFailed"
    /\ activeProcesses' = Deregister(activeProcesses, c)
    /\ LET d == ClearTimer([exec[c] EXCEPT !.proc = "errored"])
       IN  exec' = [exec EXCEPT ![c] =
                      IF d.timedOut THEN d
                      ELSE Reject(d, GitError("Git command error", NULL,
                                              sanitizeError(message, d.token)))]
    /\ UNCHANGED <<appVars, fr, down, san>>

\* shutdown(): cleanupGitProcesses kills and clears the registry, and the
\* server exits in the same turn of the event loop
cleanupGitProcesses ==
    /\ ~down
    /\ activeProcesses' = {}
    /\ down' = TRUE
    /\ UNCHANGED <<appVars, fr, exec, san>>

\* forceExitTimer: process.exit(1) before the registry was drained
ForcedExit ==
    /\ ~down
    /\ down' = TRUE
    /\ UNCHANGED <<appVars, fr, activeProcesses, exec, san>>

\* ---------------------------------------------------------------- fetchRefs
\* every failure retried
AnyFailure(outcome) == TRUE

\* errorMsg.includes('shallow') || errorMsg.includes('unshallow')
MentionsShallow(outcome) == outcome = "shallow"

\* const fetchDepth = depth || config.git.fetchDepth
FirstDepth(depth) == IF depth = 0 THEN fetchDepth ELSE depth

\* fetchRefs up to its first await: git fetch --depth <fetchDepth>
fetchRefs(f, depth) ==
    /\ fr[f].pc = "idle"
    /\ \A g \in FetchCalls : g < f => fr[g].pc # "idle"
    /\ fr' = [fr EXCEPT ![f] = [IdleFetch EXCEPT !.pc = "first", !.depth = depth,
                                                 !.invocations = <<FirstDepth(depth)>>]]
    /\ UNCHANGED <<appVars, activeProcesses, exec, down, san>>

\* the first execGit settles: return, retry at fetchDeepDepth, or throw
FirstFetchSettles(f, outcome) ==
    /\ fr[f].pc = "first"
    /\ fr' = [fr EXCEPT ![f] =
                IF outcome = "ok"
                THEN [@ EXCEPT !.pc = "resolved", !.first = outcome, !.result = "ok"]
                ELSE IF MentionsShallow(outcome)
                THEN [@ EXCEPT !.pc = "deep", !.first = outcome,
                               !.invocations = Append(@, fetchDeepDepth)]
                ELSE [@ EXCEPT !.pc = "rejected", !.first = outcome,
                               !.result = "Failed to fetch refs"]]
    /\ UNCHANGED <<appVars, activeProcesses, exec, down, san>>

\* the deep execGit settles: return or throw
DeepFetchSettles(f, outcome) ==
    /\ fr[f].pc = "deep"
    /\ fr' = [fr EXCEPT ![f] =
                IF outcome = "ok"
                THEN [@ EXCEPT !.pc = "resolved", !.second = outcome, !.result = "ok"]
                ELSE [@ EXCEPT !.pc = "rejected", !.second = outcome,
                               !.result = "Failed to fetch refs (even with deep fetch)"]]
    /\ UNCHANGED <<appVars, activeProcesses, exec, down, san>>

\* ------------------------------------------------------- specifications
\* timeline responses where the comparisons are checked: no event, or one
\* force push
OneForcePush ==
    {<<>>, <<[event |-> "head_ref_force_pushed", created_at |-> CreatedAt(0),
              commit_id |-> "b"]>>}

CompareNext(procs) ==
    \/ \E p \in procs, user \in Users, r \in Repos :
          \E fromId, toId \in 1..(Len(ledger) + 1) : CompareCall(p, user, r, fromId, toId)
    \/ \E p \in procs, dontAskAgain \in BOOLEAN : Confirm(p, dontAskAgain)
    \/ \E p \in procs : Redirected(p)
    \/ \E p \in procs, ok \in BOOLEAN : CloneClose(p, ok)
    \/ \E p \in procs, outcome \in {"ok", "shallow", "failed"} : FetchClose(p, outcome)
    \/ \E p \in procs, ok \in BOOLEAN : FetchDeepClose(p, ok)
    \/ \E p \in procs, ok \in BOOLEAN : MergeBaseClose(p, ok)
    \/ \E p \in procs, ok \in BOOLEAN : RangeDiffClose(p, ok)

\* the pull-request routes, for some calls, pull requests and responses
BackfillNext(procs, changeSets, bases, responses) ==
    \/ \E p \in procs, cs \in changeSets, base \in bases, h \in Shas :
          BackfillCall(p, cs, base, h)
    \/ \E p \in procs, tl \in responses : BackfillResume(p, TRUE, tl)
    \/ \E p \in procs : BackfillResume(p, FALSE, <<>>)

\* Concurrent comparisons, over a ledger that one view of a pull request
\* filled.
Next ==
    \/ BackfillNext({1}, {<<"o/r1", 1>>}, {[ref |-> "main", sha |-> "b1"]}, OneForcePush)
    \/ CompareNext(CmpProcs)

Spec == Init /\ [][Next]_vars

\* Views of one pull request before and after a comparison.
ReviewNext ==
    \/ BackfillNext(BfProcs, {<<"o/r1", 1>>}, Bases, OneForcePush)
    \/ CompareNext({1})

ReviewSpec == Init /\ [][ReviewNext]_vars

\* Views of one pull request before and after a comparison, while the clock
\* advances.
AgainNext == Tick \/ ReviewNext

AgainSpec == Init /\ [][AgainNext]_vars

\* the ledger alone, under every timeline response within the bounds
LedgerNext == Tick \/ BackfillNext(BfProcs, ChangeSets, Bases, Timelines)

LedgerSpec == Init /\ [][LedgerNext]_vars

\* the git commands of lib/git.ts, each through execGit
RunnerNext ==
    \/ \E c \in ExecCalls, op \in GitOps, token \in AccessTokens, spawned \in BOOLEAN :
          ExecGit(c, op, token, spawned)
    \/ \E c \in ExecCalls : Timeout(c)
    \/ \E c \in ExecCalls, code \in ExitCodes : \E stderr \in Stderrs(exec[c].token) :
          ProcClose(c, code, stderr)
    \/ \E c \in ExecCalls : \E message \in Stderrs(exec[c].token) : ProcError(c, message)
    \/ cleanupGitProcesses
    \/ ForcedExit

RunnerSpec == Init /\ [][RunnerNext]_vars

\* fetchRefs with every depth and every outcome of its git commands
FetchNext ==
    \/ \E f \in FetchCalls, depth \in Depths : fetchRefs(f, depth)
    \/ \E f \in FetchCalls, outcome \in FetchOutcomes : FirstFetchSettles(f, outcome)
    \/ \E f \in FetchCalls, outcome \in FetchOutcomes : DeepFetchSettles(f, outcome)

FetchSpec == Init /\ [][FetchNext]_vars

\* sanitizeError on every message and token within the bounds
SanitizeInit ==
    /\ Started
    /\ \E message \in Messages, token \in Tokens :
          san = [pc |-> "called", message |-> message, token |-> token]

Sanitize ==
    /\ san.pc = "called"
    /\ san' = [pc |-> "returned", message |-> san.message, token |-> san.token,
               out |-> sanitizeError(san.message, san.token)]
    /\ UNCHANGED <<appVars, fr, activeProcesses, exec, down>>

SanitizeSpec == SanitizeInit /\ [][Sanitize]_vars

\* one range-diff request of one user with its URL parameters as the browser
\* sends them, over a ledger that one view of a pull request filled
RequestNext ==
    \/ BackfillNext({1}, {<<"o/r1", 1>>}, {[ref |-> "main", sha |-> "b1"]}, OneForcePush)
    \/ \E r \in RawRepos :
          \E number, fromId, toId \in RawParams :
             RangeDiffRequest(1, "u1", r, number, fromId, toId)
    \/ \E dontAskAgain \in BOOLEAN : Confirm(1, dontAskAgain)
    \/ Redirected(1)
    \/ \E ok \in BOOLEAN : CloneClose(1, ok)
    \/ \E outcome \in {"ok", "shallow", "failed"} : FetchClose(1, outcome)
    \/ \E ok \in BOOLEAN : FetchDeepClose(1, ok)
    \/ \E ok \in BOOLEAN : MergeBaseClose(1, ok)
    \/ \E ok \in BOOLEAN : RangeDiffClose(1, ok)

RequestSpec == Init /\ [][RequestNext]_vars

\* Concurrent requests and confirm forms while the clock advances, every git
\* command succeeding, over the ledger of a pull request without force push.
PrefNext ==
    \/ Tick
    \/ BackfillNext({1}, {<<"o/r1", 1>>}, {[ref |-> "main", sha |-> "b1"]}, {<<>>})
    \/ \E p \in CmpProcs, user \in Users, r \in Repos :
          \E fromId, toId \in 1..(Len(ledger) + 1) : CompareCall(p, user, r, fromId, toId)
    \/ \E p \in CmpProcs, dontAskAgain \in BOOLEAN : Confirm(p, dontAskAgain)
    \/ \E p \in CmpProcs : Redirected(p)
    \/ \E p \in CmpProcs : CloneClose(p, TRUE)
    \/ \E p \in CmpProcs : FetchClose(p, "ok")
    \/ \E p \in CmpProcs : MergeBaseClose(p, TRUE)
    \/ \E p \in CmpProcs : RangeDiffClose(p, TRUE)

PrefSpec == Init /\ [][PrefNext]_vars

\* Requests and confirm forms of every user for every repository on stored
\* revisions, over the ledger of two pull requests of one repository without
\* force push, every git command succeeding.
GateNext ==
    \/ \E p \in BfProcs, cs \in {<<"o/r1", 1>>, <<"o/r1", 2>>} :
          BackfillCall(p, cs, [ref |-> "main", sha |-> "b1"], "a")
    \/ \E p \in BfProcs : BackfillResume(p, TRUE, <<>>)
    \/ \E p \in CmpProcs, user \in Users, r \in Repos :
          \E fromId, toId \in Ids(ledger) : CompareCall(p, user, r, fromId, toId)
    \/ \E p \in CmpProcs, dontAskAgain \in BOOLEAN : Confirm(p, dontAskAgain)
    \/ \E p \in CmpProcs : Redirected(p)
    \/ \E p \in CmpProcs : CloneClose(p, TRUE)
    \/ \E p \in CmpProcs : FetchClose(p, "ok")
    \/ \E p \in CmpProcs : MergeBaseClose(p, TRUE)
    \/ \E p \in CmpProcs : RangeDiffClose(p, TRUE)

GateSpec == Init /\ [][GateNext]_vars

\* Concurrent requests of one user for one repository, under every outcome of
\* every git command.
TermNext ==
    \/ BackfillNext({1}, {<<"o/r1", 1>>}, {[ref |-> "main", sha |-> "b1"]}, OneForcePush)
    \/ \E p \in CmpProcs :
          \E fromId, toId \in 1..(Len(ledger) + 1) : CompareCall(p, "u1", "o/r1", fromId, toId)
    \/ \E p \in CmpProcs, dontAskAgain \in BOOLEAN : Confirm(p, dontAskAgain)
    \/ \E p \in CmpProcs : Redirected(p)
    \/ \E p \in CmpProcs : GitSettles(p)

TermSpec == Init /\ [][TermNext]_vars

\* execGit settles every call, by the close of the subprocess or by its timer
TermLiveSpec == TermSpec /\ \A p \in CmpProcs : WF_vars(GitSettles(p))

\* timers fire while the server runs
RunnerLiveSpec == RunnerSpec /\ \A c \in ExecCalls : WF_vars(Timeout(c))

\* ----------------------------------------------------------------- claims
AncestorOps == {"clone", "fetch", "fetchDeep", "mergeBase"}
InFlight == AncestorOps \cup {"rangeDiff"}

\* process p runs the GET handler in this step
Starts(p) == cmp[p].pc \in {"idle", "redirect"} /\ cmp'[p].pc \notin {"idle", "redirect"}

AsksConfirmation(c) == c.pc = "done" /\ c.result = "ConfirmationRequired"

\* the call is in the ancestor computation of its from or its to revision
ComputingAncestor(c, stage) == c.pc \in AncestorOps /\ c.stage = stage

RevId(c, stage) == IF stage = "from" THEN c.fromId ELSE c.toId
LocalMb(c, stage) == IF stage = "from" THEN c.fromMb ELSE c.toMb

\* C1: a GET on two existing revisions answers ConfirmationRequired exactly
\* when, in the ledger and preferences as they are at the call, one of the two
\* rows has merge_base_sha null and the user has no skip preference for the
\* requested repository.
C1_GateIsFunctionOfState ==
    [][\A p \in CmpProcs :
         LET c == cmp'[p]
         IN  (Starts(p) /\ c.fromId \in Ids(ledger) /\ c.toId \in Ids(ledger))
             => (AsksConfirmation(c)
                  <=> /\ \/ ledger[c.fromId].merge_base_sha = NULL
                         \/ ledger[c.toId].merge_base_sha = NULL
                      /\ ~\E x \in prefs : /\ x.user_id = c.user
                                           /\ x.preference_key = c.repo
                                           /\ x.preference_value = "1")]_vars

\* both answers of the gate on the same pair of revisions: one user is asked,
\* another is past the gate and computing
C1_Witness ==
    \E p, q \in CmpProcs :
       /\ AsksConfirmation(cmp[p])
       /\ cmp[q].pc = "mergeBase"
       /\ cmp[q].fromId = cmp[p].fromId /\ cmp[q].toId = cmp[p].toId
       /\ cmp[q].repo = cmp[p].repo /\ cmp[q].user # cmp[p].user

\* C2: the step that answers ConfirmationRequired leaves the ledger, the
\* preferences and the mirror as they were, spawns no subprocess in that call
\* and touches no other call.
C2_ConfirmationChangesNothing ==
    [][\A p \in CmpProcs :
         (Starts(p) /\ AsksConfirmation(cmp'[p]))
         => /\ ledger' = ledger
            /\ prefs' = prefs
            /\ mirror' = mirror
            /\ cmp'[p].spawns = 0
            /\ \A q \in CmpProcs \ {p} : cmp'[q] = cmp[q]]_vars

\* a first request was answered ConfirmationRequired while a revision lacks
\* its merge base
C2_Witness ==
    \E p \in CmpProcs :
       /\ AsksConfirmation(cmp[p])
       /\ ~cmp[p].confirmed
       /\ ledger[cmp[p].fromId].merge_base_sha = NULL
       /\ mirror = {}

\* C3: the GET that follows the confirm form is not answered
\* ConfirmationRequired again.
C3_ConfirmedRequestProceeds ==
    \A p \in CmpProcs : cmp[p].confirmed => ~AsksConfirmation(cmp[p])

\* C4: a merge base, once stored, stays non-null; a call that loads a row with
\* a merge base takes it into its local, keeps it, and is never in the
\* ancestor computation of that revision.
C4_StoredAncestorNeverRecomputed ==
    [][/\ \A i \in Ids(ledger) :
             ledger[i].merge_base_sha # NULL
             => i \in Ids(ledger') /\ ledger'[i].merge_base_sha # NULL
       /\ \A p \in CmpProcs, stage \in {"from", "to"} :
             LET c == cmp'[p]
             IN  /\ (Starts(p) /\ c.pc # "done"
                       /\ ledger[RevId(c, stage)].merge_base_sha # NULL)
                    => LocalMb(c, stage) = ledger[RevId(c, stage)].merge_base_sha
                 /\ (cmp[p].pc \in InFlight /\ LocalMb(cmp[p], stage) # NULL)
                    => LocalMb(c, stage) = LocalMb(cmp[p], stage)
                 /\ ComputingAncestor(c, stage) => LocalMb(c, stage) = NULL]_vars

\* a call on two revisions that have their merge bases, whose first subprocess
\* is the fetch of the range comparison
C4_Witness ==
    \E p \in CmpProcs :
       /\ cmp[p].stage = "range" /\ cmp[p].pc = "fetch" /\ cmp[p].spawns = 1
       /\ cmp[p].fromId # cmp[p].toId
       /\ ledger[cmp[p].fromId].merge_base_sha # NULL
       /\ ledger[cmp[p].toId].merge_base_sha # NULL

\* C5: a call that compares two different revisions stores a merge base only
\* in a row whose merge_base_sha is null.
C5_AncestorWrittenOnlyWhileNull ==
    [][\A p \in CmpProcs :
         (/\ cmp[p].pc = "mergeBase"
          /\ cmp'[p].pc # "mergeBase"
          /\ cmp'[p].result # "Error"
          /\ cmp[p].fromId # cmp[p].toId)
         => ledger[RevId(cmp[p], cmp[p].stage)].merge_base_sha = NULL]_vars

\* C6: no two rows of the ledger have the same (owner/repo, pr_number,
\* head_sha).
C6_OneRowPerKey ==
    \A i, j \in Ids(ledger) :
       i # j => ~SameKey(ledger[i], ledger[j].repo, ledger[j].pr_number, ledger[j].head_sha)

\* two backfills of one pull request have saved the same head
C6_Witness ==
    \E p, q \in BfProcs :
       /\ p # q
       /\ bf[p].pc = "done" /\ bf[q].pc = "done"
       /\ bf[p].repo = bf[q].repo /\ bf[p].pr_number = bf[q].pr_number
       /\ bf[p].currentHeadSha = bf[q].currentHeadSha

RowFields ==
    {"repo", "pr_number", "head_sha", "head_ref", "base_sha", "base_ref",
     "merge_base_sha", "seen_at"}

\* C7: a step of a backfill leaves every row it finds as it is, with its
\* merge base, and every row it adds is whole and has merge_base_sha null.
C7_RecordNeverOverwrites ==
    [][(bf' # bf)
       => /\ \A i \in Ids(ledger) : i \in Ids(ledger') /\ ledger'[i] = ledger[i]
          /\ \A i \in Ids(ledger') \ Ids(ledger) :
                /\ DOMAIN ledger'[i] = RowFields
                /\ ledger'[i].merge_base_sha = NULL]_vars

\* a backfill has run over a row of its head that has a merge base and
\* another base commit
C7_Witness ==
    \E p \in BfProcs, i \in Ids(ledger) :
       /\ bf[p].pc = "done"
       /\ SameKey(ledger[i], bf[p].repo, bf[p].pr_number, bf[p].currentHeadSha)
       /\ ledger[i].base_sha # bf[p].baseSha
       /\ ledger[i].merge_base_sha # NULL

\* the only backfill that has saved rows of its pull request, and it found none
AloneOnEmpty(p) ==
    /\ bf[p].pc = "done"
    /\ bf[p].wasEmpty
    /\ \A q \in BfProcs \ {p} :
          bf[q].pc = "done" => (bf[q].repo # bf[p].repo \/ bf[q].pr_number # bf[p].pr_number)

C9_BackfillSurvivesTimelineFailure ==
    [][\A p \in BfProcs :
         /\ (bf[p].pc = "timeline" /\ bf'[p] # bf[p]) => bf'[p].pc = "done"
         /\ (bf'[p].pc = "done" /\ ~bf'[p].reachable)
            => LET rows == RowsOf(ledger', bf'[p].repo, bf'[p].pr_number)
               IN  /\ \E i \in rows : ledger'[i].head_sha = bf'[p].currentHeadSha
                   /\ (bf[p].pc = "timeline" /\ bf'[p].wasEmpty)
                      => Cardinality(rows) = 1]_vars

\* the timeline request failed on a pull request not seen before
C9_Witness ==
    \E p \in BfProcs :
       /\ bf[p].pc = "done" /\ ~bf[p].reachable /\ bf[p].wasEmpty
       /\ Cardinality(RowsOf(ledger, bf[p].repo, bf[p].pr_number)) = 1

\* C10: the list a view gets holds the rows of its pull request, each once
\* and as the ledger has it, and no entry is followed by one seen later.
C10_ListIsPullRequestRowsNewestFirst ==
    [][\A p \in BfProcs :
         (bf[p].pc = "timeline" /\ bf'[p].pc = "done")
         => LET list == bf'[p].revisions
                rows == {i \in Ids(ledger') : /\ ledger'[i].repo = bf'[p].repo
                                              /\ ledger'[i].pr_number = bf'[p].pr_number}
            IN  /\ {list[k].id : k \in 1..Len(list)} = rows
                /\ Len(list) = Cardinality(rows)
                /\ \A k \in 1..Len(list) :
                      \A f \in RowFields : list[k][f] = ledger'[list[k].id][f]
                /\ \A k, l \in 1..Len(list) :
                      k < l => list[k].seen_at >= list[l].seen_at]_vars

\* a list of two rows seen at different times, beside a row of another pull
\* request
C10_Witness ==
    \E p \in BfProcs :
       /\ bf[p].pc = "done"
       /\ Len(bf[p].revisions) = 2
       /\ bf[p].revisions[1].seen_at > bf[p].revisions[2].seen_at
       /\ \E i \in Ids(ledger) : ledger[i].repo # bf[p].repo

\* the fields of a row that no operation changes
FixedFields == RowFields \ {"merge_base_sha"}

\* C11: in every step of a view, a backfill or a comparison, each row of the
\* ledger keeps its id, owner/repo, pr_number, head_sha, head_ref, base_sha,
\* base_ref and seen_at; only merge_base_sha can differ.
C11_LedgerAppendOnly ==
    [][/\ Len(ledger') >= Len(ledger)
       /\ \A i \in Ids(ledger) : \A f \in FixedFields : ledger'[i][f] = ledger[i][f]]_vars

\* a comparison has stored a merge base and a second view has added a row
C11_Witness ==
    /\ \E i \in Ids(ledger) : ledger[i].merge_base_sha # NULL
    /\ bf[1].pc = "done" /\ bf[2].pc = "done"
    /\ Len(bf[1].revisions) = 1
    /\ Len(bf[2].revisions) = 2

\* the promise of an execGit call is settled
Settled(c) == c.pc \in {"resolved", "rejected"}

\* C12: while the server runs, every execGit call that is pending is
\* eventually resolved or rejected, whatever its subprocess does.
C12_ExecGitCompletes ==
    \A c \in ExecCalls : (exec[c].pc = "pending") ~> (Settled(exec[c]) \/ down)

\* a call rejected by its timer while its subprocess has not closed
C12_Witness ==
    \E c \in ExecCalls :
       /\ exec[c].pc = "rejected"
       /\ exec[c].result.kind = "Git command timed out"
       /\ exec[c].proc = "running"
       /\ ~down

\* C13: the subprocess of a settled call is not in the registry, the
\* subprocess of a pending call is in it unless the server has shut down, and
\* the registry holds nothing else.
C13_RegistryHoldsPendingCalls ==
    /\ \A c \in ExecCalls : Settled(exec[c]) => c \notin activeProcesses
    /\ \A c \in ExecCalls : (exec[c].pc = "pending" /\ ~down) => c \in activeProcesses
    /\ \A c \in activeProcesses : exec[c].pc = "pending"

\* one call has completed and left the registry, another is pending in it
C13_Witness ==
    /\ ~down
    /\ Settled(exec[1])
    /\ exec[2].pc = "pending"
    /\ activeProcesses = {2}

\* the kinds of error execGit rejects with, told apart by the fixed text of
\* the message
ErrorKinds == {"Git command failed", "Git command timed out", "Git command error"}

\* C14: the step that settles a call resolves it exactly when it is the close
\* of the subprocess with exit code 0; otherwise it rejects with one of three
\* kinds: failed at a close with another code, timed out when the timer fired,
\* error when the spawn failed.  A settled call keeps its outcome.
C14_OutcomeFollowsCause ==
    [][\A c \in ExecCalls :
         LET old == exec[c]
             new == exec'[c]
             closes == old.proc # "closed" /\ new.proc = "closed"
         IN  /\ (old.pc = "pending" /\ Settled(new))
                => /\ new.pc = "resolved" <=> (closes /\ new.exitCode = "0")
                   /\ new.pc = "rejected" => new.result.kind \in ErrorKinds
                   /\ new.result.kind = "Git command failed"
                         <=> (closes /\ new.exitCode # "0")
                   /\ new.result.kind = "Git command timed out"
                         <=> (old.timer = "armed" /\ new.timer = "fired")
                   /\ new.result.kind = "Git command error"
                         <=> (old.proc = "spawnFailed" /\ new.proc = "errored")
             /\ Settled(old) => (new.pc = old.pc /\ new.result = old.result)]_vars

\* a call that timed out and whose process a signal then ended, beside a call
\* that closed with exit code 0
C14_Witness ==
    \E c, d \in ExecCalls :
       /\ exec[c].result.kind = "Git command timed out" /\ exec[c].exitCode = NULL
       /\ exec[d].pc = "resolved" /\ exec[d].exitCode = "0"

\* C15: what sanitizeError returns for a token that is not empty holds no
\* occurrence of the token, and is the message itself when the message holds
\* none; for the empty token it is the message.
C15_SanitizedHoldsNoToken ==
    san.pc = "returned"
    => IF san.token = <<>> THEN san.out = san.message
       ELSE /\ ~Contains(san.out, san.token)
            /\ ~Contains(san.message, san.token) => san.out = san.message

\* C16: no error of execGit, and no error that ensureRepo, fetchRefs,
\* computeMergeBase or computeRangeDiff throw from it, holds the access token.
C16_NoErrorHoldsToken ==
    \A c \in ExecCalls :
       exec[c].pc = "rejected"
       => /\ ~Contains(exec[c].result.text, exec[c].token)
          /\ ~Contains(exec[c].surfaced.text, exec[c].token)

\* git failed with the token twice in its stderr, and the error that was
\* thrown shows the placeholder twice
C16_Witness ==
    \E c \in ExecCalls :
       /\ exec[c].pc = "rejected"
       /\ exec[c].result.kind = "Git command failed"
       /\ exec[c].token = <<"a", "b">>
       /\ exec[c].surfaced.text = <<"b">> \o PLACEHOLDER \o PLACEHOLDER

\* C17: a fetchRefs call runs git fetch at most twice; the second run is there
\* exactly when the first failed with a message about a shallow history; a
\* first failure of another kind ends the call after one run; a failed retry
\* ends it after two with the error of the deep fetch; a retry that succeeds
\* makes the call succeed after two.
C17_OneRetryOnShallowFailure ==
    \A f \in FetchCalls :
       LET c == fr[f]
           runs == Len(c.invocations)
       IN  /\ runs <= 2
           /\ c.pc \in {"deep", "resolved", "rejected"}
              => /\ runs = 2 <=> c.first = "shallow"
                 /\ (c.first \notin {"ok", "shallow"})
                    => (c.pc = "rejected" /\ runs = 1 /\ c.result = "Failed to fetch refs")
           /\ (c.second \notin {"none", "ok"})
              => /\ c.pc = "rejected" /\ runs = 2
                 /\ c.result = "Failed to fetch refs (even with deep fetch)"
           /\ c.second = "ok" => (c.pc = "resolved" /\ runs = 2)
           /\ c.first = "ok" => (c.pc = "resolved" /\ runs = 1)

\* a call that succeeded on its retry, beside a call that a timeout ended after
\* one run
C17_Witness ==
    \E f, g \in FetchCalls :
       /\ fr[f].pc = "resolved" /\ fr[f].first = "shallow" /\ Len(fr[f].invocations) = 2
       /\ fr[g].pc = "rejected" /\ fr[g].first = "timeout" /\ Len(fr[g].invocations) = 1

\* C18: the depth of the retry is greater than the depth of the first run.
C18_RetryIsDeeper ==
    \A f \in FetchCalls :
       Len(fr[f].invocations) = 2 => fr[f].invocations[2] > fr[f].invocations[1]

\* what a caller can tell an error by without reading the exit code or git's
\* own text out of the message: the fixed texts of the message
KindOf(c) == <<c.surfaced.wrap, c.surfaced.kind>>

\* C19: the error computeMergeBase throws when git merge-base finds no common
\* ancestor (exit code 1) is of another kind than the error it throws when
\* git merge-base fails otherwise (exit code 128).
C19_DisjointHistoriesHaveOwnKind ==
    \A c, d \in ExecCalls :
       (/\ exec[c].pc = "rejected" /\ exec[c].op = "mergeBase" /\ exec[c].exitCode = "1"
        /\ exec[d].pc = "rejected" /\ exec[d].op = "mergeBase" /\ exec[d].exitCode = "128")
       => KindOf(exec[c]) # KindOf(exec[d])

\* C20: within one call a fetch starts only with the mirror on disk, a
\* merge-base or range-diff only out of the fetch of its stage, the stages
\* follow each other as from, to, range, and the range stage starts only with
\* both merge bases in the locals and stored in the rows.
C20_StepsInOrder ==
    [][\A p \in CmpProcs :
         LET old == cmp[p]
             new == cmp'[p]
             StageNo(st) == CASE st = "from" -> 1 [] st = "to" -> 2 [] st = "range" -> 3
                              [] OTHER -> 0
         IN  new # old
             => /\ new.pc = "clone" => new.repo \notin mirror'
                /\ new.pc = "fetch" => new.repo \in mirror'
                /\ new.pc \in {"fetchDeep", "mergeBase", "rangeDiff"}
                   => (old.pc \in {"fetch", "fetchDeep"} /\ old.pc # new.pc
                       /\ new.stage = old.stage)
                /\ new.pc = "mergeBase" => new.stage \in {"from", "to"}
                /\ new.pc = "rangeDiff" => new.stage = "range"
                /\ (old.pc \in InFlight /\ new.pc \in InFlight)
                   => StageNo(new.stage) >= StageNo(old.stage)
                /\ (new.pc \in InFlight /\ new.stage = "range")
                   => /\ new.fromMb # NULL /\ new.toMb # NULL
                      /\ ledger'[new.fromId].merge_base_sha # NULL
                      /\ ledger'[new.toId].merge_base_sha # NULL]_vars

\* a call that cloned, computed both merge bases and is in its range-diff:
\* clone, fetch, merge-base, fetch, merge-base, fetch, range-diff
C20_Witness ==
    \E p \in CmpProcs :
       /\ cmp[p].pc = "rangeDiff"
       /\ cmp[p].spawns = 7
       /\ cmp[p].fromId # cmp[p].toId

\* C21: at every moment a range-diff request has at most one git subprocess that
\* it started and has not yet seen close or be killed by the timer, the deep
\* fetch after a shallow failure included; it has one exactly while it awaits
\* execGit.
C21_OneSubprocessInFlight ==
    \A p \in CmpProcs :
       /\ cmp[p].live <= 1
       /\ cmp[p].live = 1 <=> cmp[p].pc \in InFlight

\* a request in the deep fetch that follows its shallow failure
C21_Witness ==
    \E p \in CmpProcs :
       /\ cmp[p].pc = "fetchDeep"
       /\ cmp[p].last = "shallow"
       /\ cmp[p].spawns >= 2
       /\ cmp[p].live = 1

\* a request that was let past the gate with both merge bases missing, on two
\* distinct revisions
BothMissing(c) == c.needed = 2 /\ c.fromId # c.toId

\* C22 as stated: such a request has made exactly two execGit calls for the two
\* merge bases when it starts computeRangeDiff (whose fetch is its next call).
C22_TwoInvocationsForBothAncestors ==
    \A p \in CmpProcs :
       (BothMissing(cmp[p]) /\ cmp[p].stage = "range" /\ cmp[p].rangeDiffs = 0
          /\ cmp[p].pc = "fetch")
       => cmp[p].spawns - 1 = 2

\* C22: a request let past the gate with both merge bases missing that ends in
\* the comparison has run git merge-base exactly twice and git range-diff
\* exactly once, in six to ten execGit calls (each computeMergeBase and the
\* computeRangeDiff fetch first, the first may clone, each fetch may be
\* retried once), and both rows hold their merge base.
C22_BothAncestorsThenOneRangeDiff ==
    \A p \in CmpProcs :
       LET c == cmp[p]
       IN  /\ (BothMissing(c) /\ c.stage = "range" /\ c.rangeDiffs = 0 /\ c.pc = "fetch")
              => (c.mergeBases = 2 /\ c.spawns - 1 \in 4..7)
           /\ (BothMissing(c) /\ c.pc = "done" /\ c.result = "Comparison")
              => /\ c.mergeBases = 2
                 /\ c.rangeDiffs = 1
                 /\ c.spawns \in 6..10
                 /\ c.fromMb # NULL /\ c.toMb # NULL
                 /\ ledger[c.fromId].merge_base_sha # NULL
                 /\ ledger[c.toId].merge_base_sha # NULL

\* a user with the skip preference got the comparison of two revisions that
\* both lacked their merge base, in the fewest calls
C22_Witness ==
    \E p \in CmpProcs :
       /\ BothMissing(cmp[p])
       /\ skipConfirm(prefs, cmp[p].user, cmp[p].repo)
       /\ cmp[p].pc = "done" /\ cmp[p].result = "Comparison"
       /\ cmp[p].spawns = 6

\* C23: a GET whose from or to id has no row in pr_revisions answers 404
\* 'Revision not found' whatever the preference and the merge bases of the
\* other row are; it starts no subprocess and leaves pr_revisions, the
\* preferences and the clones as they were.  Only such a request gets that
\* answer.
C23_AbsentRevisionIsNotFound ==
    [][\A p \in CmpProcs :
         Starts(p)
         => LET new == cmp'[p]
                absent == new.fromId \notin Ids(ledger) \/ new.toId \notin Ids(ledger)
            IN  /\ absent => /\ new.pc = "done"
                             /\ new.result = "NotFound"
                             /\ new.spawns = 0
                             /\ UNCHANGED <<ledger, prefs, mirror, gitVars>>
                /\ new.result = "NotFound" => absent]_vars

\* a 404 for a request that names one stored revision without merge base and
\* one absent id, by a user without the skip preference
C23_Witness ==
    \E p \in CmpProcs :
       /\ cmp[p].pc = "done" /\ cmp[p].result = "NotFound"
       /\ cmp[p].fromId \in Ids(ledger)
       /\ ledger[cmp[p].fromId].merge_base_sha = NULL
       /\ cmp[p].toId \notin Ids(ledger)
       /\ ~skipConfirm(prefs, cmp[p].user, cmp[p].repo)

\* C25: from the start of computeRangeDiff to the reply the request writes
\* neither pr_revisions nor user_preferences, and a comparison is only ever
\* answered by a git range-diff of the request itself that just closed: its
\* output is stored nowhere.
C25_RangeStagePersistsNothing ==
    [][\A p \in CmpProcs :
         LET old == cmp[p]
             new == cmp'[p]
         IN  /\ (new # old /\ old.pc \in InFlight /\ old.stage = "range")
                => (ledger' = ledger /\ prefs' = prefs)
             /\ (new # old /\ new.result = "Comparison")
                => (old.pc = "rangeDiff" /\ new.rangeDiffs = 1 /\ new.live = 0)]_vars

\* two requests for the same pair of revisions both answered; the second found
\* both merge bases stored and still ran its own fetch and range-diff
C25_Witness ==
    \E p, q \in CmpProcs :
       /\ p # q
       /\ cmp[p].pc = "done" /\ cmp[p].result = "Comparison"
       /\ cmp[q].pc = "done" /\ cmp[q].result = "Comparison"
       /\ cmp[p].fromId = cmp[q].fromId /\ cmp[p].toId = cmp[q].toId
       /\ cmp[p].repo = cmp[q].repo
       /\ cmp[p].needed > 0
       /\ cmp[q].needed = 0 /\ cmp[q].rangeDiffs = 1 /\ cmp[q].spawns = 2

\* a numeric identifier: digits and nothing else
WellFormedNumber(str) == str # <<>> /\ \A i \in 1..Len(str) : str[i] \in Digits

\* the URL of the request has an owner/repo that names no repository, or a
\* pull-request number or revision id that is not a number
Malformed(c) ==
    \/ c.repo \notin Repos
    \/ ~WellFormedNumber(c.number)
    \/ ~WellFormedNumber(c.rawFromId)
    \/ ~WellFormedNumber(c.rawToId)

\* C24: a range-diff request whose URL has a malformed owner, repo,
\* pull-request number or revision id is answered 400 'Invalid parameters';
\* it starts no subprocess and changes neither pr_revisions nor the clones.
C24_MalformedRequestRejected ==
    [][\A p \in CmpProcs :
         (Starts(p) /\ Malformed(cmp'[p]))
         => /\ cmp'[p].pc = "done"
            /\ cmp'[p].result = "InvalidParameters"
            /\ cmp'[p].spawns = 0
            /\ UNCHANGED <<ledger, mirror>>]_vars

\* a request with the revision id '1x' or the owner '..' that got as far as
\* git clone
C24_MalformedReachesGit ==
    \E p \in CmpProcs :
       /\ Malformed(cmp[p])
       /\ cmp[p].pc = "clone"
       /\ (cmp[p].rawFromId = <<"1", "x">> \/ cmp[p].repo = DotDotRepo)

\* the rows of user u under range_diff_skip_confirm:<r>
PrefRows(prf, u, r) == {x \in prf : x.user_id = u /\ x.preference_key = r}

\* this step is the confirm form of request p
Confirms(p) == AsksConfirmation(cmp[p]) /\ cmp'[p].pc = "redirect"

\* C26 as stated: user_preferences holds at most one row per (user,
\* owner/repo), a user without a row is asked, and after a confirm form was
\* posted the preference read is the one the form carried, ticked or not.
C26_SetThenGetReturnsSkip ==
    [][/\ \A u \in Users, r \in Repos :
            /\ Cardinality(PrefRows(prefs', u, r)) <= 1
            /\ PrefRows(prefs, u, r) = {} => ~skipConfirm(prefs, u, r)
       /\ \A p \in CmpProcs :
            Confirms(p)
            => skipConfirm(prefs', cmp'[p].user, cmp'[p].repo) = cmp'[p].dontAskAgain]_vars

\* C26: user_preferences holds at most one row per (user, owner/repo); a user
\* without a row is asked; after a confirm form with the box ticked the
\* preference read is true; and a preference that reads true reads true ever
\* after, a confirm form without the tick included: nothing writes another
\* value or deletes the row.
C26_PreferenceIsOneWayUpsert ==
    [][/\ \A u \in Users, r \in Repos :
            /\ Cardinality(PrefRows(prefs', u, r)) <= 1
            /\ PrefRows(prefs, u, r) = {} => ~skipConfirm(prefs, u, r)
            /\ skipConfirm(prefs, u, r) => skipConfirm(prefs', u, r)
       /\ \A p \in CmpProcs :
            (Confirms(p) /\ cmp'[p].dontAskAgain)
            => skipConfirm(prefs', cmp'[p].user, cmp'[p].repo)]_vars

\* two confirm forms of one user for one repository, both ticked, a second
\* apart: the row of the first was replaced by the row of the second
C26_Witness ==
    \E p, q \in CmpProcs :
       /\ p # q
       /\ cmp[p].pc = "redirect" /\ cmp[p].dontAskAgain
       /\ cmp[q].pc = "redirect" /\ cmp[q].dontAskAgain
       /\ cmp[p].user = cmp[q].user /\ cmp[p].repo = cmp[q].repo
       /\ PrefRows(prefs, cmp[p].user, cmp[p].repo)
            = {PrefRow(cmp[p].user, cmp[p].repo, 1)}

\* C27: once the server has exited, on whichever path of shutdown(), the
\* registry activeProcesses is empty and no execGit call is left pending:
\* every subprocess was killed and its call rejected.
C27_ShutdownDrainsRegistry ==
    down => /\ activeProcesses = {}
            /\ \A c \in ExecCalls : exec[c].pc # "pending"

\* the server gone by the forced exit while a subprocess is in the registry
C27_ExitedWithSubprocess ==
    /\ down
    /\ \E c \in activeProcesses : exec[c].pc = "pending" /\ exec[c].proc = "running"

\* C28: ensureRepo starts git clone exactly when the bare repository of the
\* request is not on disk, and nothing otherwise (the next subprocess is the
\* fetch of fetchRefs); a repository that is on disk stays on disk.
C28_EnsureRepoClonesOnlyWhenAbsent ==
    [][/\ mirror \subseteq mirror'
       /\ \A p \in CmpProcs :
            LET old == cmp[p]
                new == cmp'[p]
                ensured == /\ new # old
                           /\ new.pc \in InFlight
                           /\ (old.pc \notin InFlight \/ new.stage # old.stage)
            IN  /\ ensured => new.pc = (IF new.repo \in mirror THEN "fetch" ELSE "clone")
                /\ (new # old /\ new.pc = "clone") => (ensured /\ new.repo \notin mirror)]_vars

\* one request cloned the repository and went on to its fetch; a later request
\* for the same repository started with the fetch
C28_Witness ==
    \E p, q \in CmpProcs :
       /\ p # q
       /\ cmp[p].repo = cmp[q].repo /\ cmp[p].repo \in mirror
       /\ cmp[q].pc = "fetch" /\ cmp[q].spawns = 2 /\ cmp[q].last = "ok"
       /\ cmp[p].pc = "fetch" /\ cmp[p].spawns = 1

\* C29: when a git command of a request fails for good (the clone, a fetch
\* that is not retried or its retry, git merge-base, git range-diff), the
\* request ends there with the error view and no comparison; that step writes
\* nothing, so the row whose merge base was being computed is left as it was;
\* and no step ever takes a stored merge base out of a row.  The error view is
\* final and comes from nothing else.
C29_FailureIsTerminal ==
    [][/\ \A id \in Ids(ledger) :
            ledger[id].merge_base_sha # NULL => ledger'[id].merge_base_sha # NULL
       /\ \A p \in CmpProcs :
            LET old == cmp[p]
                new == cmp'[p]
                closes == new # old /\ old.pc \in InFlight
            IN  /\ (closes /\ new.last = "failed")
                   => /\ new.pc = "done" /\ new.result = "Error"
                      /\ new.spawns = old.spawns
                      /\ ledger' = ledger
                /\ (closes /\ new.last = "shallow") => (old.pc = "fetch" /\ new.pc = "fetchDeep")
                /\ (new # old /\ new.result = "Error") => (closes /\ new.last = "failed")
                /\ (old.pc = "done" /\ old.result = "Error") => new = old]_vars

\* a request that stored the merge base of its from revision and then failed
\* in the computation for its to revision, whose row has none
C29_Witness ==
    \E p \in CmpProcs :
       /\ cmp[p].pc = "done" /\ cmp[p].result = "Error"
       /\ BothMissing(cmp[p])
       /\ cmp[p].stage = "to"
       /\ cmp[p].last = "failed"
       /\ ledger[cmp[p].fromId].merge_base_sha # NULL
       /\ ledger[cmp[p].toId].merge_base_sha = NULL

\* execGit calls of one request at most: clone, then fetch, deep fetch and git
\* command for each merge base and for the range-diff
MaxSpawns == 10

\* C30: every range-diff request that waits on git ends, whatever the outcome
\* of each git command: it reaches its one reply (the comparison or the error
\* view; the confirm page, 404 and 400 are replied before any git command),
\* and it never makes more than MaxSpawns execGit calls.
C30_RequestTerminates ==
    /\ [](\A p \in CmpProcs : cmp[p].spawns <= MaxSpawns)
    /\ \A p \in CmpProcs :
          (cmp[p].pc \in InFlight)
          ~> (cmp[p].pc = "done" /\ cmp[p].result \in {"Comparison", "Error"})

\* a request answered with the comparison after the most execGit calls a
\* request can make
C30_Witness ==
    \E p \in CmpProcs :
       /\ cmp[p].pc = "done" /\ cmp[p].result = "Comparison"
       /\ cmp[p].spawns = MaxSpawns

\* C40: sanitizeError applied to its own result, with the same token, gives
\* that result again, for every message and every token.
C40_SanitizeIsIdempotent ==
    san.pc = "returned" => sanitizeError(san.out, san.token) = san.out

\* the token 'T', a letter of '***TOKEN***', in a message that holds it:
\* the second application replaces the T of the replacement text
C40_TokenInPlaceholder ==
    /\ san.pc = "returned"
    /\ san.token = <<"T">>
    /\ san.message = <<"a", "T">>
    /\ san.out = <<"a">> \o PLACEHOLDER
    /\ sanitizeError(san.out, san.token)
         = <<"a", "*", "*", "*">> \o PLACEHOLDER \o <<"O", "K", "E", "N", "*", "*", "*">>

\* C31: git range-diff is run on the merge base and head of the from revision
\* and the merge base and head of the to revision, and while it runs and when
\* the request is answered these are the merge_base_sha and head_sha of the
\* two rows, whatever other requests did in between.
C31_RangeDiffOnStoredAncestors ==
    \A p \in CmpProcs :
       LET c == cmp[p]
       IN  (c.pc = "rangeDiff" \/ (c.pc = "done" /\ c.result = "Comparison"))
           => RangeDiffArgs(c) = <<ledger[c.fromId].merge_base_sha, ledger[c.fromId].head_sha,
                                   ledger[c.toId].merge_base_sha, ledger[c.toId].head_sha>>

\* two requests for the same two revisions that both found no merge base, both
\* computed both and both were answered
C31_Witness ==
    \E p, q \in CmpProcs :
       /\ p # q
       /\ cmp[p].pc = "done" /\ cmp[p].result = "Comparison" /\ BothMissing(cmp[p])
       /\ cmp[q].pc = "done" /\ cmp[q].result = "Comparison" /\ BothMissing(cmp[q])
       /\ cmp[p].fromId = cmp[q].fromId /\ cmp[p].toId = cmp[q].toId

\* the distinct revisions of the request that had no merge base when it loaded
\* its rows
RevisionsLacking(c) ==
    IF c.fromId = c.toId THEN (IF c.needed > 0 THEN 1 ELSE 0) ELSE c.needed

\* C32: a request runs git merge-base at most once for each distinct revision
\* that had no merge base when it loaded its rows, also when its from id and
\* its to id are the same.
C32_OneComputationPerRevision ==
    \A p \in CmpProcs : cmp[p].mergeBases <= RevisionsLacking(cmp[p])

\* a request comparing a revision with itself in its second git merge-base for
\* that revision, whose row already holds the result of the first
C32_SameRevisionComputedTwice ==
    \E p \in CmpProcs :
       /\ cmp[p].fromId = cmp[p].toId
       /\ cmp[p].pc = "mergeBase" /\ cmp[p].stage = "to"
       /\ cmp[p].mergeBases = 2
       /\ ledger[cmp[p].toId].merge_base_sha # NULL

\* the request got past the loading of its two rows
PastLoading(c) == c.pc # "idle" /\ c.result \notin {"NotFound", "InvalidParameters"}

\* C33: the two rows of a request that got past loading are revisions of the
\* repository and the pull request that the URL names.
C33_RevisionsBelongToRequest ==
    \A p \in CmpProcs :
       PastLoading(cmp[p])
       => \A id \in {cmp[p].fromId, cmp[p].toId} :
             /\ ledger[id].repo = cmp[p].repo
             /\ ledger[id].pr_number = parseInt(cmp[p].number).value

\* a request under o/r2 that runs git merge-base, in the clone of o/r2, for a
\* revision of o/r1, under the skip preference for o/r2
C33_OtherRepositoryCompared ==
    \E p \in CmpProcs :
       /\ cmp[p].pc = "mergeBase"
       /\ cmp[p].repo = "o/r2"
       /\ ledger[cmp[p].fromId].repo = "o/r1"
       /\ skipConfirm(prefs, cmp[p].user, "o/r2")
       /\ ~skipConfirm(prefs, cmp[p].user, "o/r1")

\* C34: a request starts git clone only when its user has the skip preference
\* for the repository of the request, or the request is the redirect of the
\* confirm form.
C34_CloneOnlyWithConsent ==
    [][\A p \in CmpProcs :
         (cmp'[p] # cmp[p] /\ cmp'[p].pc = "clone")
         => \/ skipConfirm(prefs, cmp'[p].user, cmp'[p].repo)
            \/ cmp'[p].confirmed]_vars

\* git clone of o/r2 for a user who never saw the confirm page for it and has
\* no preference for it: the two rows of the request, revisions of o/r1, hold
\* their merge bases
C34_CloneWithoutConsent ==
    \E p \in CmpProcs :
       /\ cmp[p].pc = "clone" /\ cmp[p].stage = "range"
       /\ cmp[p].repo = "o/r2"
       /\ ~cmp[p].confirmed
       /\ ~skipConfirm(prefs, cmp[p].user, "o/r2")
       /\ ledger[cmp[p].fromId].repo = "o/r1"

\* C35: of the requests for one repository at most one has a git clone of it
\* running, and at most one git clone of it is ever started.
C35_OneCloneOfARepository ==
    \A p, q \in CmpProcs :
       (p # q /\ cmp[p].repo = cmp[q].repo /\ cmp[p].repo # NULL)
       => /\ ~(cmp[p].pc = "clone" /\ cmp[q].pc = "clone")
          /\ cmp[p].clones + cmp[q].clones <= 1

\* two requests for o/r1 that both found no repository on disk, each waiting
\* for its own git clone into the same path
C35_TwoClonesInFlight ==
    \E p, q \in CmpProcs :
       /\ p # q
       /\ cmp[p].repo = "o/r1" /\ cmp[q].repo = "o/r1"
       /\ cmp[p].pc = "clone" /\ cmp[q].pc = "clone"
       /\ "o/r1" \notin mirror

\* C36: an execGit call has one outcome.  Once it is resolved or rejected
\* nothing changes that, the close or error event of a killed process
\* included; a resolved call carries no error and a rejected call carries one;
\* and once the process has closed or failed to spawn the timer is cleared or
\* has fired before, and does not fire afterwards.
C36_OneOutcome ==
    [][\A c \in ExecCalls :
         LET old == exec[c]
             new == exec'[c]
         IN  /\ Settled(old) => /\ new.pc = old.pc
                                /\ new.result = old.result
                                /\ new.surfaced = old.surfaced
             /\ new.pc = "resolved" => new.result.kind = "ok"
             /\ new.pc = "rejected" => new.result.kind \notin {"ok", "none"}
             /\ old.proc \in {"closed", "errored"}
                => /\ old.timer \in {"cleared", "fired"}
                   /\ new.timer = old.timer
                   /\ new.timedOut = old.timedOut]_vars

\* a call rejected by its timer whose killed process has closed since, and a
\* call rejected by a failed spawn whose close event came after
C36_Witness ==
    \E c, d \in ExecCalls :
       /\ exec[c].pc = "rejected" /\ exec[c].timedOut /\ exec[c].proc = "closed"
       /\ exec[c].result.kind = "Git command timed out"
       /\ exec[d].pc = "rejected" /\ ~exec[d].timedOut /\ exec[d].proc = "closed"
       /\ exec[d].result.kind = "Git command error"

\* C37: after a backfill that got the timeline, the first row of getRevisions
\* for the pull request is the row of the head the backfill was given.
C37_FirstRevisionIsCurrentHead ==
    \A p \in BfProcs :
       (bf[p].pc = "done" /\ bf[p].reachable)
       => /\ bf[p].revisions # <<>>
          /\ bf[p].revisions[1].head_sha = bf[p].currentHeadSha

\* the head is the commit of a force push of the timeline (the branch was
\* pushed back to it) and a later force push comes first in getRevisions
C37_PushedBackHeadNotFirst ==
    \E p \in BfProcs :
       /\ bf[p].pc = "done" /\ bf[p].reachable
       /\ bf[p].currentHeadSha \in bf[p].forced
       /\ Len(bf[p].revisions) = 2
       /\ bf[p].revisions[1].head_sha # bf[p].currentHeadSha
       /\ bf[p].revisions[2].head_sha = bf[p].currentHeadSha

\* backfill q ends in this step, on a timeline it got, and backfill p ended
\* before on the same pull request and head and a timeline that names the same
\* force-pushed commits
RunsAgain(p, q) ==
    /\ p # q
    /\ bf[q].pc = "timeline" /\ bf'[q].pc = "done" /\ bf'[q].reachable
    /\ bf[p].pc = "done" /\ bf[p].reachable
    /\ bf[p].repo = bf'[q].repo /\ bf[p].pr_number = bf'[q].pr_number
    /\ bf[p].currentHeadSha = bf'[q].currentHeadSha
    /\ bf[p].forced = bf'[q].forced

\* C38: a backfill on the pull request, head and force-pushed commits of a
\* backfill that has ended leaves pr_revisions as it is: the rows, their seen_at and their
\* merge bases, whatever the time and whatever comparisons ran in between.
C38_BackfillAgainChangesNothing ==
    [][\A p, q \in BfProcs : RunsAgain(p, q) => ledger' = ledger]_vars

\* the second of two backfills on the same head and timeline with a force
\* push, run a second after the first, over a row that a comparison gave its
\* merge base in between
C38_Witness ==
    \E p, q \in BfProcs :
       /\ p # q
       /\ bf[p].pc = "done" /\ bf[p].reachable /\ bf[p].wasEmpty /\ bf[p].now = 0
       /\ bf[q].pc = "done" /\ bf[q].reachable /\ ~bf[q].wasEmpty /\ bf[q].now = 1
       /\ bf[p].currentHeadSha = bf[q].currentHeadSha
       /\ bf[p].forced = bf[q].forced /\ bf[p].forced # {}
       /\ bf[p].baseSha = bf[q].baseSha
       /\ Len(ledger) = 2
       /\ \E i \in Ids(ledger) : ledger[i].merge_base_sha # NULL
       /\ bf[q].revisions = [k \in 1..Len(bf[p].revisions) |->
                               [bf[p].revisions[k] EXCEPT !.merge_base_sha =
                                  ledger[bf[p].revisions[k].id].merge_base_sha]]

\* the answer of the gate to a request of the user for the repository on two
\* stored revisions: TRUE when it is the confirmation page
ConfirmationRequired(prf, led, user, r, fromId, toId) ==
    GateBlocks(needsCompute(led[fromId], led[toId]), skipConfirm(prf, user, r))

\* the confirm form of call p is posted with the box ticked
SetsSkip(p) ==
    /\ cmp[p].pc = "done" /\ cmp[p].result = "ConfirmationRequired"
    /\ cmp'[p].pc = "redirect" /\ cmp'[p].dontAskAgain

\* the GET handler answers call p in this step
Answers(p) ==
    /\ cmp[p].pc \in {"idle", "redirect"}
    /\ cmp'[p].pc \notin {"idle", "redirect"}

\* C39: a confirm form posted with the box ticked by user u for repository r
\* makes the gate let through u's requests for r on every pair of stored
\* revisions, and leaves the gate's answer as it was for every other user and
\* for every other repository; and a request of a user who has the preference
\* for its repository is never answered with the confirmation page, whichever
\* pull request its revisions are of.
C39_GateIsolatedPerUserAndRepo ==
    [][/\ \A p \in CmpProcs : SetsSkip(p) =>
             \A user \in Users, r \in Repos : \A fromId, toId \in Ids(ledger) :
                IF user = cmp[p].user /\ r = cmp[p].repo
                THEN ~ConfirmationRequired(prefs', ledger', user, r, fromId, toId)
                ELSE ConfirmationRequired(prefs', ledger', user, r, fromId, toId)
                        = ConfirmationRequired(prefs, ledger, user, r, fromId, toId)
       /\ \A p \in CmpProcs :
             Answers(p) /\ skipConfirm(prefs, cmp'[p].user, cmp'[p].repo)
                => cmp'[p].result # "ConfirmationRequired"]_vars

\* the first call stored the preference of u1 for o/r1 on revisions of one pull
\* request; the second, of u1 for o/r1 on a revision of the other pull request
\* that lacks its merge base, went on to git without the confirm form, while u2
\* and o/r2 are still asked
C39_Witness ==
    /\ cmp[1].user = "u1" /\ cmp[1].repo = "o/r1" /\ cmp[1].dontAskAgain
    /\ cmp[1].pc = "redirect"
    /\ cmp[2].user = "u1" /\ cmp[2].repo = "o/r1" /\ ~cmp[2].confirmed
    /\ cmp[2].pc \notin {"idle", "done", "redirect"} /\ cmp[2].needed > 0
    /\ cmp[2].toId \in Ids(ledger) /\ cmp[1].toId \in Ids(ledger)
    /\ ledger[cmp[2].toId].pr_number # ledger[cmp[1].toId].pr_number
    /\ \A fromId, toId \in Ids(ledger) :
          needsCompute(ledger[fromId], ledger[toId]) =>
             /\ ConfirmationRequired(prefs, ledger, "u2", "o/r1", fromId, toId)
             /\ ConfirmationRequired(prefs, ledger, "u1", "o/r2", fromId, toId)
             /\ ~ConfirmationRequired(prefs, ledger, "u1", "o/r1", fromId, toId)
====
